---- MODULE Spec2Model ----
(***************************************************************************)
(* Model of torchgeo/models/seq2seq.py: Encoder, Decoder and Seq2Seq.      *)
(*                                                                         *)
(* A tensor is a record [shape, steps]: shape is the (batch, time,         *)
(* feature) triple and steps lists, per time step, where the values of     *)
(* that step come from (<<"past", i>>, <<"future", i>>, <<"pred", t>> or   *)
(* <<"zeros", i>>).  A recurrent state is [shape, from] with shape the     *)
(* (layer, batch, hidden) triple and from the call that produced it.       *)
(* Python's None and an attribute that was never assigned are records of   *)
(* their own.  Probabilities and random draws are counted in tenths.       *)
(***************************************************************************)
EXTENDS Integers, Sequences, FiniteSets, TLC

VARIABLES
    pc,              \* "new", "idle", "decode", "done" or "raised"
    ctor_args,       \* the arguments Seq2Seq.__init__ was called with
    encoder,         \* self.encoder
    decoder,         \* self.decoder
    past_targets,    \* argument of Seq2Seq.forward
    future_targets,  \* argument of Seq2Seq.forward (Missing when not passed)
    inputs,          \* inputs_decoder / Decoder.forward's inputs
    hidden,          \* Decoder.forward's hidden
    cell,            \* Decoder.forward's cell
    outputs,         \* Decoder.forward's outputs
    current_input,   \* Decoder.forward's current_input
    t,               \* Decoder.forward's loop variable
    log,             \* one entry per completed loop iteration
    err,             \* the exception type that ended the call, or "none"
    result,          \* the tensor the call returned, or None
    vals,            \* what hidden, cell, current_input and outputs hold, as
                     \* terms over the modules' weights and the call's tensors
    kept             \* an output the caller kept from an earlier call, or None

vars == <<pc, ctor_args, encoder, decoder, past_targets, future_targets,
          inputs, hidden, cell, outputs, current_input, t, log, err, result,
          vals, kept>>

locals == <<past_targets, future_targets, inputs, hidden, cell, outputs,
            current_input, t, log, result, vals>>

----------------------------------------------------------------------------
(* Bounds of the model *)

MaxBatch == 2
MaxSize == 2
MaxHidden == 2
MaxLayers == 2
MaxLen == 3
MaxPast == 2
MaxFuture == 3

----------------------------------------------------------------------------
(* Values *)

None == [isNone |-> TRUE]
Missing == [isMissing |-> TRUE]
Unset == [isUnset |-> TRUE]

\* the recurrent classes of torch.nn by rnn_type
RNN_TYPE == [rnn |-> "RNN", gru |-> "GRU", lstm |-> "LSTM"]

SupportedTypes == DOMAIN RNN_TYPE
RnnTypes == SupportedTypes \cup {"transformer"}

\* teacher_force_prob: None or a probability in tenths
Prob(p) == [p |-> p]
TeacherForceProbs == {None, Prob(0), Prob(5), Prob(10)}

\* random.random() returns a value in [0, 1): the least one, the one equal to
\* the probability 0.5, and the greatest one in tenths
RandomDraws == {0, 5, 9}

Min(a, b) == IF a < b THEN a ELSE b

Tensor(b, steps, s) == [shape |-> <<b, Len(steps), s>>, steps |-> steps]

\* x[:, lo:hi, :] with 0 <= lo <= hi: Python clamps a slice to the axis
SliceTime(x, lo, hi) ==
    LET n  == Len(x.steps)
        l  == Min(lo, n)
        h  == Min(hi, n)
    IN  Tensor(x.shape[1], SubSeq(x.steps, l + 1, h), x.shape[3])

\* torch.cat([a, b], dim=1)
CatTime(a, b) == Tensor(a.shape[1], a.steps \o b.steps, a.shape[3])

----------------------------------------------------------------------------
(* torch.nn primitives, as far as shapes and data flow go *)

\* Fault: the 'gru' case builds an nn.RNN
NewRNN_gruAsRnn(rnn_type, input_size, hidden_size, num_layers) ==
    LET mod(cls) == [cls |-> cls, input_size |-> input_size,
                     hidden_size |-> hidden_size, num_layers |-> num_layers]
    IN  CASE rnn_type = "rnn"  -> mod("RNN")
          [] rnn_type = "gru"  -> mod("RNN")
          [] rnn_type = "lstm" -> mod("LSTM")
          [] OTHER             -> Unset

\* match rnn_type: ... of Encoder.__init__ and Decoder.__init__: the value
\* self.rnn holds afterwards.  No case matches an unknown rnn_type and the
\* match statement has no default case, so self.rnn is then never assigned.
NewRNN(rnn_type, input_size, hidden_size, num_layers) ==
    LET mod(cls) == [cls |-> cls, input_size |-> input_size,
                     hidden_size |-> hidden_size, num_layers |-> num_layers]
    IN  CASE rnn_type = "rnn"  -> mod("RNN")
          [] rnn_type = "gru"  -> mod("GRU")
          [] rnn_type = "lstm" -> mod("LSTM")
          [] OTHER             -> Unset

\* nn.Linear(in_features, out_features)
NewLinear(in_features, out_features) ==
    [in_features |-> in_features, out_features |-> out_features]

StateShape(rnn, x) == <<rnn.num_layers, x.shape[1], rnn.hidden_size>>

\* self.rnn(x) and self.rnn(x, state) of nn.RNN, nn.GRU and nn.LSTM with
\* batch_first=True: the final state(s), or the error torch raises for an
\* input whose feature size is not input_size, whose time axis is empty
\* ("Expected sequence length to be larger than 0 in RNN") or whose initial
\* state has the wrong shape.  hx = None stands for the call without a state.
RnnCall(rnn, x, hx, cx, tag) ==
    IF x.shape[3] # rnn.input_size \/ x.shape[2] = 0
    THEN [err |-> "RuntimeError", hidden |-> hx, cell |-> cx]
    ELSE IF hx # None /\ hx.shape # StateShape(rnn, x)
    THEN [err |-> "RuntimeError", hidden |-> hx, cell |-> cx]
    ELSE [err    |-> "none",
          hidden |-> [shape |-> StateShape(rnn, x), from |-> tag],
          cell   |-> IF rnn.cls = "LSTM"
                     THEN [shape |-> StateShape(rnn, x), from |-> tag]
                     ELSE None]

\* self.fc(hidden[-1:]).permute(1, 0, 2): the prediction of step step
Project(fc, h, step) == Tensor(h.shape[2], <<<<"pred", step>>>>, fc.out_features)

----------------------------------------------------------------------------
(* Encoder *)

Encoder_init(input_size, hidden_size, num_layers, rnn_type) ==
    [rnn |-> NewRNN(rnn_type, input_size, hidden_size, num_layers)]

\* Encoder.forward: reading self.rnn raises AttributeError when __init__
\* assigned none
Encoder_forward(enc, x) ==
    IF enc.rnn = Unset
    THEN [err |-> "AttributeError", hidden |-> None, cell |-> None]
    ELSE LET out == RnnCall(enc.rnn, x, None, None, <<"encoder", 0>>)
         IN  IF out.err # "none"
             THEN [err |-> out.err, hidden |-> None, cell |-> None]
             ELSE IF enc.rnn.cls = "LSTM"
             THEN [err |-> "none", hidden |-> out.hidden, cell |-> out.cell]
             ELSE IF enc.rnn.cls \in {"GRU", "RNN"}
             THEN [err |-> "none", hidden |-> out.hidden, cell |-> None]
             ELSE [err |-> "TypeError", hidden |-> None, cell |-> None]

----------------------------------------------------------------------------
(* Decoder *)

Decoder_init(input_size, hidden_size, rnn_type, num_layers, output_sequence_len, teacher_force_prob) ==
    [rnn                 |-> NewRNN(rnn_type, input_size, hidden_size, num_layers),
     fc                  |-> NewLinear(hidden_size, input_size),
     output_size         |-> input_size,
     output_sequence_len |-> output_sequence_len,
     teacher_force_prob  |-> teacher_force_prob]

ZeroSteps(n) == [i \in 1..n |-> <<"zeros", i - 1>>]

\* Fault: outputs allocated with hidden_size features instead of output_size
Decoder_zeros_hiddenSize(dec, batch_size) ==
    [shape  |-> <<batch_size, dec.output_sequence_len, dec.fc.in_features>>,
     steps  |-> ZeroSteps(dec.output_sequence_len),
     writes |-> [i \in 1..dec.output_sequence_len |-> 0]]

\* outputs = torch.zeros(batch_size, output_sequence_len, output_size);
\* writes counts the assignments to each slot
Decoder_zeros(dec, batch_size) ==
    [shape  |-> <<batch_size, dec.output_sequence_len, dec.output_size>>,
     steps  |-> ZeroSteps(dec.output_sequence_len),
     writes |-> [i \in 1..dec.output_sequence_len |-> 0]]

\* Fault: every prediction is stored in slot 0
Decoder_store_first(outs, step, output) ==
    [outs EXCEPT !.steps[1]  = output.steps[1],
                 !.writes[1] = @ + 1]

\* outputs[:, t : t + 1, :] = output
Decoder_store(outs, step, output) ==
    [outs EXCEPT !.steps[step + 1]  = output.steps[1],
                 !.writes[step + 1] = @ + 1]

\* Fault: the draw is compared with <= instead of <
Decoder_teacher_force_le(dec, draw) ==
    IF dec.teacher_force_prob # None
    THEN draw <= dec.teacher_force_prob.p
    ELSE FALSE

\* Fault: a missing teacher_force_prob is taken as 0.5
Decoder_teacher_force_defaultHalf(dec, draw) ==
    IF dec.teacher_force_prob # None
    THEN draw < dec.teacher_force_prob.p
    ELSE draw < 5

\* random.random() < self.teacher_force_prob if it is not None else False
Decoder_teacher_force(dec, draw) ==
    IF dec.teacher_force_prob # None
    THEN draw < dec.teacher_force_prob.p
    ELSE FALSE

\* current_input = inputs[:, t : t + 1, :].clone() if teacher_force else output
Decoder_next_input(ins, step, output, teacher_force) ==
    IF teacher_force
    THEN SliceTime(ins, step, step + 1)
    ELSE output

\* Fault: the nn.LSTM branch keeps the old cell, as the other branches do
Decoder_rnn_cellDropped(dec, x, hx, cx, step) ==
    IF dec.rnn = Unset
    THEN [err |-> "AttributeError", hidden |-> hx, cell |-> cx]
    ELSE IF dec.rnn.cls \in {"LSTM", "GRU", "RNN"}
    THEN [RnnCall(dec.rnn, x, hx, cx, <<"decoder", step>>) EXCEPT !.cell = cx]
    ELSE [err |-> "TypeError", hidden |-> hx, cell |-> cx]

\* The isinstance chain at the head of the loop body:
\* _, (hidden, cell) = self.rnn(current_input, (hidden, cell)) for nn.LSTM,
\* _, hidden = self.rnn(current_input, hidden) for nn.GRU and nn.RNN
Decoder_rnn(dec, x, hx, cx, step) ==
    IF dec.rnn = Unset
    THEN [err |-> "AttributeError", hidden |-> hx, cell |-> cx]
    ELSE IF dec.rnn.cls = "LSTM"
    THEN RnnCall(dec.rnn, x, hx, cx, <<"decoder", step>>)
    ELSE IF dec.rnn.cls \in {"GRU", "RNN"}
    THEN [RnnCall(dec.rnn, x, hx, cx, <<"decoder", step>>) EXCEPT !.cell = cx]
    ELSE [err |-> "TypeError", hidden |-> hx, cell |-> cx]

----------------------------------------------------------------------------
(* The values the tensors hold.  A value is a term: an argument tensor of   *)
(* the call, or the application of one of the model's modules (its weights  *)
(* are fixed at construction and no forward path assigns them) to values.   *)

\* hidden, cell = self.encoder(past_targets)
Encoder_values(enc, x) ==
    [hidden |-> [op |-> "encoder.rnn.h_n", x |-> x],
     cell   |-> IF enc.rnn.cls = "LSTM"
                THEN [op |-> "encoder.rnn.c_n", x |-> x]
                ELSE None]

\* the state self.rnn(current_input, state) of the decoder returns
Decoder_rnn_values(dec, x, h, c) ==
    [hidden |-> [op |-> "decoder.rnn.h_n", x |-> x, h |-> h, c |-> c],
     cell   |-> IF dec.rnn.cls = "LSTM"
                THEN [op |-> "decoder.rnn.c_n", x |-> x, h |-> h, c |-> c]
                ELSE c]

\* self.fc(last_layer_hidden)
Decoder_fc_value(h) == [op |-> "decoder.fc", h |-> h]

\* torch.zeros(...)
ZeroValues(n) == [i \in 1..n |-> [op |-> "zeros"]]

----------------------------------------------------------------------------
(* Seq2Seq *)

\* def forward(self, past_targets, future_targets): the signature gives
\* future_targets no default value
forward_has_default_future_targets == FALSE

\* Binding the arguments of model(past_targets[, future_targets]) to the
\* parameters of forward: Python raises TypeError for a required parameter
\* that got no argument
Seq2Seq_bind(future) ==
    IF future # Missing
    THEN [err |-> "none", future |-> future]
    ELSE IF forward_has_default_future_targets
    THEN [err |-> "none", future |-> None]
    ELSE [err |-> "TypeError", future |-> Missing]

\* inputs_decoder of Seq2Seq.forward
Seq2Seq_inputs_decoder(past, future) ==
    LET last == SliceTime(past, Len(past.steps) - 1, Len(past.steps))
    IN  IF future # None THEN CatTime(last, future) ELSE last

PastTensors ==
    { Tensor(b, [i \in 1..n |-> <<"past", i - 1>>], s) :
        b \in 1..MaxBatch, n \in 1..MaxPast, s \in 1..MaxSize }

FutureTensor(past, n) ==
    Tensor(past.shape[1], [i \in 1..n |-> <<"future", i - 1>>], past.shape[3])

\* what a caller may pass as future_targets next to past: nothing, None or
\* a tensor of the same batch and feature size
FutureArgs(past) ==
    {Missing, None} \cup { FutureTensor(past, n) : n \in 1..MaxFuture }

----------------------------------------------------------------------------
(* The state machine *)

Init ==
    /\ pc = "new"
    /\ ctor_args = None
    /\ encoder = None
    /\ decoder = None
    /\ past_targets = None
    /\ future_targets = None
    /\ inputs = None
    /\ hidden = None
    /\ cell = None
    /\ outputs = None
    /\ current_input = None
    /\ t = 0
    /\ log = <<>>
    /\ err = "none"
    /\ result = None
    /\ vals = None
    /\ kept = None

\* Seq2Seq.__init__
Seq2Seq_init ==
    /\ pc = "new"
    /\ \E input_size \in 1..MaxSize, rnn_type \in RnnTypes,
          hidden_size \in 1..MaxHidden, output_sequence_len \in 1..MaxLen,
          num_layers \in 1..MaxLayers, teacher_force_prob \in TeacherForceProbs :
          /\ ctor_args' = [input_size |-> input_size, rnn_type |-> rnn_type,
                           hidden_size |-> hidden_size,
                           output_sequence_len |-> output_sequence_len,
                           num_layers |-> num_layers,
                           teacher_force_prob |-> teacher_force_prob]
          /\ encoder' = Encoder_init(input_size, hidden_size, num_layers, rnn_type)
          /\ decoder' = Decoder_init(input_size, hidden_size, rnn_type, num_layers,
                                     output_sequence_len, teacher_force_prob)
    /\ pc' = "idle"
    /\ UNCHANGED <<locals, err, kept>>

\* model(past_targets[, future_targets]) up to the first iteration of the
\* decoder's loop: argument binding, Seq2Seq.forward's inputs_decoder, the
\* encoder call, and Decoder.forward's lines before the loop
Seq2Seq_forward ==
    /\ pc = "idle"
    /\ \E past \in PastTensors :
       \E future \in FutureArgs(past) :
          LET bound == Seq2Seq_bind(future)
              ins   == Seq2Seq_inputs_decoder(past, bound.future)
              enc   == Encoder_forward(encoder, past)
          IN  /\ past_targets' = past
              /\ future_targets' = bound.future
              /\ t' = 0
              /\ log' = <<>>
              /\ result' = None
              /\ IF bound.err # "none"
                 THEN /\ pc' = "raised"
                      /\ err' = bound.err
                      /\ inputs' = None
                      /\ hidden' = None
                      /\ cell' = None
                      /\ outputs' = None
                      /\ current_input' = None
                      /\ vals' = None
                 ELSE IF enc.err # "none"
                 THEN /\ pc' = "raised"
                      /\ err' = enc.err
                      /\ inputs' = ins
                      /\ hidden' = None
                      /\ cell' = None
                      /\ outputs' = None
                      /\ current_input' = None
                      /\ vals' = None
                 ELSE /\ pc' = "decode"
                      /\ err' = "none"
                      /\ inputs' = ins
                      /\ hidden' = enc.hidden
                      /\ cell' = enc.cell
                      /\ outputs' = Decoder_zeros(decoder, ins.shape[1])
                      /\ current_input' = SliceTime(ins, 0, 1)
                      /\ vals' = [hidden  |-> Encoder_values(encoder, past).hidden,
                                  cell    |-> Encoder_values(encoder, past).cell,
                                  input   |-> SliceTime(ins, 0, 1),
                                  outputs |-> ZeroValues(decoder.output_sequence_len)]
    /\ UNCHANGED <<ctor_args, encoder, decoder, kept>>

\* One iteration of for t in range(self.output_sequence_len)
Decoder_step ==
    /\ pc = "decode"
    /\ t < decoder.output_sequence_len
    /\ \E draw \in RandomDraws :
          LET out    == Decoder_rnn(decoder, current_input, hidden, cell, t)
              output == Project(decoder.fc, out.hidden, t)
              force  == Decoder_teacher_force(decoder, draw)
              new    == Decoder_rnn_values(decoder, vals.input, vals.hidden, vals.cell)
              value  == Decoder_fc_value(new.hidden)
          IN  IF out.err # "none"
              THEN /\ pc' = "raised"
                   /\ err' = out.err
                   /\ UNCHANGED locals
              ELSE /\ hidden' = out.hidden
                   /\ cell' = out.cell
                   /\ outputs' = Decoder_store(outputs, t, output)
                   /\ current_input' = Decoder_next_input(inputs, t, output, force)
                   /\ log' = Append(log, [t             |-> t,
                                          input         |-> current_input,
                                          hidden_in     |-> hidden,
                                          cell_in       |-> cell,
                                          output        |-> output,
                                          drew          |-> decoder.teacher_force_prob # None,
                                          teacher_force |-> force])
                   /\ vals' = [hidden  |-> new.hidden,
                               cell    |-> new.cell,
                               input   |-> Decoder_next_input(inputs, t, value, force),
                               outputs |-> [vals.outputs EXCEPT ![t + 1] = value]]
                   /\ t' = t + 1
                   /\ UNCHANGED <<pc, err, past_targets, future_targets, inputs, result>>
    /\ UNCHANGED <<ctor_args, encoder, decoder, kept>>

\* The loop is exhausted: Decoder.forward returns outputs and
\* Seq2Seq.forward returns it unchanged
Decoder_return ==
    /\ pc = "decode"
    /\ t >= decoder.output_sequence_len
    /\ result' = [shape |-> outputs.shape, steps |-> outputs.steps]
    /\ pc' = "done"
    /\ UNCHANGED <<ctor_args, encoder, decoder, past_targets, future_targets,
                   inputs, hidden, cell, outputs, current_input, t, log, err,
                   vals, kept>>

\* The caller is done with the returned tensor or the exception; the frames
\* of the call are gone and the model can be called again
Caller_discard ==
    /\ pc \in {"done", "raised"}
    /\ pc' = "idle"
    /\ past_targets' = None
    /\ future_targets' = None
    /\ inputs' = None
    /\ hidden' = None
    /\ cell' = None
    /\ outputs' = None
    /\ current_input' = None
    /\ t' = 0
    /\ log' = <<>>
    /\ err' = "none"
    /\ result' = None
    /\ vals' = None
    /\ UNCHANGED <<ctor_args, encoder, decoder, kept>>

Next ==
    \/ Seq2Seq_init
    \/ Seq2Seq_forward
    \/ Decoder_step
    \/ Decoder_return
    \/ Caller_discard

Spec == Init /\ [][Next]_vars

----------------------------------------------------------------------------
(* Two calls on one model.  The model is built with the defaults of       *)
(* hidden_size, num_layers and teacher_force_prob; the caller keeps the    *)
(* output of a call made with future_targets=None and goes on calling the  *)
(* model, with any arguments.                                              *)

\* hidden_size: int = 1
default_hidden_size == 1

\* num_layers: int = 1
default_num_layers == 1

\* teacher_force_prob: float | None = None
default_teacher_force_prob == None

\* Seq2Seq(input_size, rnn_type, output_sequence_len=...)
InitPair ==
    /\ pc = "idle"
    /\ ctor_args \in [input_size : 1..MaxSize, rnn_type : RnnTypes,
                      hidden_size : {default_hidden_size},
                      output_sequence_len : 1..MaxLen,
                      num_layers : {default_num_layers},
                      teacher_force_prob : {default_teacher_force_prob}]
    /\ encoder = Encoder_init(ctor_args.input_size, ctor_args.hidden_size,
                              ctor_args.num_layers, ctor_args.rnn_type)
    /\ decoder = Decoder_init(ctor_args.input_size, ctor_args.hidden_size,
                              ctor_args.rnn_type, ctor_args.num_layers,
                              ctor_args.output_sequence_len,
                              ctor_args.teacher_force_prob)
    /\ past_targets = None
    /\ future_targets = None
    /\ inputs = None
    /\ hidden = None
    /\ cell = None
    /\ outputs = None
    /\ current_input = None
    /\ t = 0
    /\ log = <<>>
    /\ err = "none"
    /\ result = None
    /\ vals = None
    /\ kept = None

\* The caller keeps what a call without future targets returned, next to
\* the past_targets it passed; the frames of the call are gone
Caller_keep ==
    /\ pc = "done"
    /\ future_targets = None
    /\ kept' = [past_targets |-> past_targets,
                shape        |-> result.shape,
                values       |-> vals.outputs]
    /\ pc' = "idle"
    /\ past_targets' = None
    /\ future_targets' = None
    /\ inputs' = None
    /\ hidden' = None
    /\ cell' = None
    /\ outputs' = None
    /\ current_input' = None
    /\ t' = 0
    /\ log' = <<>>
    /\ err' = "none"
    /\ result' = None
    /\ vals' = None
    /\ UNCHANGED <<ctor_args, encoder, decoder>>

NextPair ==
    \/ Seq2Seq_forward
    \/ Decoder_step
    \/ Decoder_return
    \/ Caller_discard
    \/ Caller_keep

SpecPair == InitPair /\ [][NextPair]_vars

----------------------------------------------------------------------------
(* Vocabulary of the properties *)

Constructed == pc # "new"

InCall == pc \in {"decode", "done", "raised"}

SupportedModel == Constructed /\ ctor_args.rnn_type \in SupportedTypes

\* a call on a supported model whose past_targets has input_size features
WellFormedCall ==
    /\ SupportedModel
    /\ InCall
    /\ past_targets.shape[3] = ctor_args.input_size

HasFuture == future_targets \notin {None, Missing}

\* the steps of the loop that have completed, as indices of log
Steps == 1..Len(log)

ExpectedShape ==
    <<past_targets.shape[1], ctor_args.output_sequence_len, ctor_args.input_size>>

----------------------------------------------------------------------------
(* C1: for every supported rnn_type and all positive batch size b,         *)
(* input_size s, output_sequence_len L, num_layers and hidden_size, a call *)
(* forward(past_targets, future_targets) with past_targets of shape        *)
(* (b, T, s), T >= 1, and future_targets of shape (b, L, s) raises nothing *)
(* and returns a tensor of shape exactly (b, L, s), whatever num_layers    *)
(* and hidden_size are.                                                    *)

C1_Call ==
    /\ WellFormedCall
    /\ HasFuture
    /\ future_targets.shape = ExpectedShape

C1_OutputShape ==
    C1_Call =>
        /\ pc # "raised"
        /\ pc = "done" => result.shape = ExpectedShape

C1_Witness ==
    /\ C1_Call
    /\ pc = "done"
    /\ ctor_args.num_layers = MaxLayers
    /\ ctor_args.hidden_size = MaxHidden
    /\ ctor_args.teacher_force_prob = Prob(5)
    /\ result.shape = <<MaxBatch, MaxLen, 1>>

----------------------------------------------------------------------------
(* C2: with teacher_force_prob = 1.0 and future_targets of at least        *)
(* output_sequence_len time steps, every step is teacher-forced and the    *)
(* input fed to step t+1 is future_targets[:, t], never a prediction and   *)
(* never the last observed past value.                                     *)

C2_Call ==
    /\ WellFormedCall
    /\ HasFuture
    /\ ctor_args.teacher_force_prob = Prob(10)
    /\ future_targets.shape[2] >= ctor_args.output_sequence_len

C2_NextInputIsFutureTarget ==
    C2_Call =>
        \A k \in Steps :
            /\ log[k].teacher_force
            /\ k >= 2 => log[k].input.steps = << <<"future", k - 2>> >>

----------------------------------------------------------------------------
(* C3: when future_targets is None, no step is teacher-forced whatever     *)
(* teacher_force_prob is: no step takes its next input from seed_inputs,   *)
(* every step after the first is fed the previous step's prediction, and   *)
(* forward completes with an output of shape                               *)
(* (batch, output_sequence_len, input_size).                               *)

C3_Call ==
    /\ WellFormedCall
    /\ future_targets = None

C3_NoForcingWithoutFuture ==
    C3_Call =>
        /\ \A k \in Steps :
              /\ ~log[k].teacher_force
              /\ k >= 2 => log[k].input = log[k - 1].output
        /\ pc # "raised"
        /\ pc = "done" => result.shape = ExpectedShape

----------------------------------------------------------------------------
(* C4: calling the model with past_targets alone, on a model built without *)
(* teacher_force_prob, raises nothing and returns a tensor of shape        *)
(* (batch, output_sequence_len, input_size).                               *)

C4_Call ==
    /\ WellFormedCall
    /\ future_targets = Missing
    /\ ctor_args.teacher_force_prob = None

C4_CallWithoutFutureReturns ==
    C4_Call =>
        /\ pc # "raised"
        /\ pc = "done" => result.shape = ExpectedShape

----------------------------------------------------------------------------
(* C5: with teacher_force_prob None or 0.0, for every sequence of random   *)
(* draws and every future_targets, step 0 is fed the last time step of     *)
(* past_targets and every later step t is fed exactly the prediction       *)
(* recorded in outputs at step t-1; no step is teacher-forced and no step  *)
(* after the first reads seed_inputs.                                      *)

C5_Call ==
    /\ WellFormedCall
    /\ ctor_args.teacher_force_prob \in {None, Prob(0)}

LastPastStep == << <<"past", past_targets.shape[2] - 1>> >>

C5_FreeRunning ==
    C5_Call =>
        /\ \A k \in Steps :
              /\ ~log[k].teacher_force
              /\ k = 1 => log[k].input.steps = LastPastStep
              /\ k >= 2 => /\ log[k].input = log[k - 1].output
                           /\ log[k].input.steps = << outputs.steps[k - 1] >>
                           /\ log[k].input.steps[1][1] = "pred"
        /\ Len(log) >= 1 => current_input = log[Len(log)].output

C5_Witness ==
    /\ C5_Call
    /\ pc = "done"
    /\ ctor_args.teacher_force_prob = Prob(0)
    /\ HasFuture
    /\ Len(log) = MaxLen
    /\ log[MaxLen].input.steps = << <<"pred", MaxLen - 2>> >>

----------------------------------------------------------------------------
(* C6: constructing an Encoder, Decoder or Seq2Seq with an rnn_type        *)
(* outside {'rnn', 'gru', 'lstm'} raises at construction: no model object  *)
(* is produced, and the failure is not left to the first forward call.     *)

C6_UnsupportedTypeRejected ==
    Constructed => ctor_args.rnn_type \in SupportedTypes

----------------------------------------------------------------------------
(* C7: for each supported rnn_type, the encoder's cell and the decoder's   *)
(* cell of a constructed Seq2Seq are both of the configured class, before, *)
(* during and after every forward call.                                    *)

C7_CellTypesMatch ==
    SupportedModel =>
        /\ encoder.rnn # Unset
        /\ decoder.rnn # Unset
        /\ encoder.rnn.cls = RNN_TYPE[ctor_args.rnn_type]
        /\ decoder.rnn.cls = RNN_TYPE[ctor_args.rnn_type]

C7_Witness ==
    /\ SupportedModel
    /\ pc = "done"
    /\ ctor_args.rnn_type = "gru"
    /\ encoder.rnn.cls = "GRU"
    /\ decoder.rnn.cls = "GRU"

----------------------------------------------------------------------------
(* C8: the input fed to every decoder step, also to a step that follows a  *)
(* teacher-forced one, holds exactly one time step (shape                  *)
(* (batch, 1, input_size)), and teacher forcing never reads seed_inputs at *)
(* an index past its last time step, also when seed_inputs has fewer than  *)
(* output_sequence_len time steps.                                         *)

C8_CurrentInputOneStep ==
    (WellFormedCall /\ pc = "decode") =>
        /\ \A k \in Steps :
              log[k].teacher_force => log[k].t < inputs.shape[2]
        /\ t < decoder.output_sequence_len =>
              current_input.shape = <<inputs.shape[1], 1, ctor_args.input_size>>

----------------------------------------------------------------------------
(* C9: Decoder.forward runs the steps t = 0, 1, ..., L-1 in this order and *)
(* no more; step t runs the cell on the state step t-1 left (the           *)
(* encoder's for t = 0) and writes its prediction to slot t of outputs and *)
(* to no other slot; on return every slot has been written exactly once    *)
(* and none keeps its zero fill.                                           *)

DecoderEntered == InCall /\ outputs # None

StateBefore(k) == IF k = 1 THEN <<"encoder", 0>> ELSE <<"decoder", k - 2>>

----------------------------------------------------------------------------
(* C10: the cell state is None exactly when the variant is not 'lstm': the *)
(* encoder returns a cell for 'lstm' and None for 'rnn' and 'gru'; while   *)
(* decoding, the cell stays None at every step for 'rnn' and 'gru' and is  *)
(* replaced by the cell's new state at every step for 'lstm'.              *)

C10_CellOnlyForLstm ==
    DecoderEntered =>
        /\ cell = None <=> ctor_args.rnn_type # "lstm"
        /\ ctor_args.rnn_type = "lstm" =>
              /\ cell.from = StateBefore(t + 1)
              /\ \A k \in Steps :
                    /\ log[k].cell_in # None
                    /\ log[k].cell_in.from = StateBefore(k)
        /\ ctor_args.rnn_type # "lstm" =>
              \A k \in Steps : log[k].cell_in = None

C10_Witness ==
    /\ DecoderEntered
    /\ ctor_args.rnn_type = "lstm"
    /\ t = 2
    /\ log[1].cell_in.from = <<"encoder", 0>>
    /\ log[2].cell_in.from = <<"decoder", 0>>
    /\ cell.from = <<"decoder", 1>>

----------------------------------------------------------------------------
(* C11: with teacher_force_prob absent, forward draws nothing from the     *)
(* process-wide random source, and what it returns is determined by the    *)
(* weights and past_targets alone: a call returns the output an earlier    *)
(* call on the same model returned for the same past_targets, whatever     *)
(* future_targets it is given, whatever the random source would have       *)
(* drawn, and whatever calls were made on the model in between.            *)

C11_Call ==
    /\ InCall
    /\ ctor_args.teacher_force_prob = None

SameAsKept ==
    /\ result.shape = kept.shape
    /\ vals.outputs = kept.values

C11_OutputFromWeightsAndPastAlone ==
    C11_Call =>
        /\ \A k \in Steps : ~log[k].drew
        /\ (pc = "done" /\ kept # None /\ kept.past_targets = past_targets)
              => SameAsKept

C11_Witness ==
    /\ C11_Call
    /\ pc = "done"
    /\ kept # None
    /\ kept.past_targets = past_targets
    /\ HasFuture
    /\ future_targets.shape[2] = MaxFuture
    /\ decoder.output_sequence_len = MaxLen
    /\ \A k \in Steps : ~log[k].drew
    /\ SameAsKept

====
